---- MODULE Spec2Model ----
(***************************************************************************)
(* Model of provider.VerifyHandler (confirmation-token login flow).        *)
(*                                                                         *)
(* Strings are sequences of one-character strings.  A request is handled   *)
(* atomically: each handler is an operator computing the outcome of one    *)
(* request (response, collaborator calls, token set, user saved) from the  *)
(* query, the tokens the client presents and the collaborators' results;   *)
(* the action then applies the outcome to the client's mailbox and cookie. *)
(***************************************************************************)
EXTENDS Integers, Sequences, FiniteSets, TLC

VARIABLES cfg, client, now, mail, cookie, last

vars == <<cfg, client, now, mail, cookie, last>>

---------------------------------------------------------------------------
(* Bounds of the model *)

MaxLen == 2        \* longest user / address drawn from Chars
TickStep == 31     \* minutes that pass in one Tick
MaxNow == 31       \* the clock stops here

---------------------------------------------------------------------------
(* Values *)

Nil == [nil |-> TRUE]

Chars == {"a", ":"}

Str(n) == UNION {[1..k -> Chars] : k \in 0..n}

\* query values for user and address: every string over Chars up to MaxLen,
\* and a few with the white space and newlines sanitize removes
RawInputs == Str(MaxLen) \cup {<<" ", "a", "\n">>}

\* the clients of the protocol runs: a name and an address that sanitize
\* changes, that it empties, and an address with the separator's character
Users == {<<" ">>, <<" ", "a", "\n">>}

Addresses == {<<>>, <<"a", "@">>, <<":", "a">>}

Sites == {<<>>, <<" ", "s", "\n">>}

Sessions == {"0", "1"}

ProviderName == <<"p">>

Issuer == "iss"

Sep == <<":", ":">>

TokenTTL == 30     \* time.Now().Add(30 * time.Minute)

NotBeforeSkew == 1 \* time.Now().Add(-1 * time.Minute)

SanitizeMaxLen == 128

TokenDuration == 30 \* token.Service.TokenDuration, used by Set when ExpiresAt == 0

RandIds == {"r1"}

---------------------------------------------------------------------------
(* strings *)

RECURSIVE ReplaceAllNewline(_)
ReplaceAllNewline(s) ==
    IF s = <<>> THEN <<>>
    ELSE IF Head(s) = "\n" THEN ReplaceAllNewline(Tail(s))
    ELSE <<Head(s)>> \o ReplaceAllNewline(Tail(s))

IsSpace(c) == c \in {" ", "\n"}

RECURSIVE TrimLeft(_)
TrimLeft(s) ==
    IF s # <<>> /\ IsSpace(Head(s)) THEN TrimLeft(Tail(s)) ELSE s

RECURSIVE TrimRight(_)
TrimRight(s) ==
    IF s # <<>> /\ IsSpace(s[Len(s)]) THEN TrimRight(SubSeq(s, 1, Len(s) - 1)) ELSE s

TrimSpace(s) == TrimRight(TrimLeft(s))

\* VerifyHandler.sanitize.  The markup policy and the HTML escaping followed by
\* the un-escaping of & " ' leave the characters used here unchanged.
sanitize(inp) ==
    LET res == TrimSpace(ReplaceAllNewline(inp))
    IN IF Len(res) > SanitizeMaxLen THEN SubSeq(res, 1, SanitizeMaxLen) ELSE res

\* first index at which sep occurs in s, 0 if none
Index(s, sep) ==
    LET hits == {i \in 1..(Len(s) - Len(sep) + 1) : SubSeq(s, i, i + Len(sep) - 1) = sep}
    IN IF hits = {} THEN 0 ELSE CHOOSE i \in hits : \A j \in hits : i <= j

\* strings.Split(s, sep) for a non-empty sep
RECURSIVE Split(_, _)
Split(s, sep) ==
    LET i == Index(s, sep)
    IN IF i = 0 THEN <<s>>
       ELSE <<SubSeq(s, 1, i - 1)>> \o Split(SubSeq(s, i + Len(sep), Len(s)), sep)

Contains(s, c) == \E i \in 1..Len(s) : s[i] = c

\* token.HashID(sha1.New(), val): the hex digest, an injective image of val
HashID(val) == <<"sha1(">> \o val \o <<")">>

---------------------------------------------------------------------------
(* token.Claims and the tokens that carry them *)

Handshake(state, id, from) == [State |-> state, ID |-> id, From |-> from]

User(name, id, picture) == [Name |-> name, ID |-> id, Picture |-> picture]

EmptyToken == [kind |-> "empty"]

Garbage == [kind |-> "garbage"]

Jwt(claims) == [kind |-> "jwt", claims |-> claims]

\* VerifTokenService.Token: the signed token of the claims
Token(claims) == Jwt(claims)

\* VerifTokenService.Parse: the claims of a token the service signed; expiry is
\* not checked here (IsExpired is a separate question)
Parse(tkn) ==
    IF tkn.kind = "jwt" THEN [err |-> FALSE, claims |-> tkn.claims]
    ELSE [err |-> TRUE, claims |-> Nil]

\* VerifTokenService.IsExpired
IsExpired(claims) == claims.ExpiresAt = 0 \/ now > claims.ExpiresAt

\* VerifTokenService.Set: the claims that end up in the cookie
SetClaims(claims) ==
    [claims EXCEPT !.ExpiresAt = IF @ = 0 THEN now + TokenDuration ELSE @]

\* VerifTokenService.Get: the claims of the token the request carries
Get(r) ==
    IF r.kind = "jwt" THEN [err |-> FALSE, claims |-> r.claims]
    ELSE [err |-> TRUE, claims |-> Nil]

\* claims the same token service signed outside this handler's flow
ForeignClaims ==
    { [Handshake |-> Handshake("confirm", <<"a">>, <<>>), User |-> Nil,
       SessionOnly |-> FALSE, Audience |-> <<"s">>, ExpiresAt |-> TokenTTL,
       NotBefore |-> 0 - NotBeforeSkew, Id |-> "", Issuer |-> Issuer],
      [Handshake |-> Handshake("confirm", <<"a", ":", ":", "a">>, <<"/", "b">>), User |-> Nil,
       SessionOnly |-> FALSE, Audience |-> <<"s">>, ExpiresAt |-> TokenTTL,
       NotBefore |-> 0 - NotBeforeSkew, Id |-> "", Issuer |-> Issuer] }

---------------------------------------------------------------------------
(* outcome of one request *)

NoBody == [kind |-> "none"]

NoEffect ==
    [status |-> 200, error |-> "", details |-> "", body |-> NoBody, redirect |-> <<>>,
     calls |-> <<>>, parsed |-> Nil, set |-> Nil, saved |-> Nil, sent |-> Nil,
     panic |-> FALSE]

\* rest.SendErrorJSON(w, r, log, status, err, details)
SendErrorJSON(o, status, err, details) ==
    [o EXCEPT !.status = status, !.error = err, !.details = details]

\* rest.RenderJSON(w, data)
RenderJSON(o, data) == [o EXCEPT !.status = 200, !.body = data]

Called(o, what) == [o EXCEPT !.calls = Append(@, what)]

\* a nil pointer dereference: the handler panics, nothing is written
Panic(o) == [o EXCEPT !.status = 0, !.panic = TRUE]

---------------------------------------------------------------------------
(* VerifyHandler *)

ConfirmClaims_RawSite(user, address, q) ==
    [Handshake |-> Handshake("confirm", user \o Sep \o address, <<>>),
     User |-> Nil,
     SessionOnly |-> (q.session # "" /\ q.session # "0"),
     Audience |-> q.site,
     ExpiresAt |-> now + TokenTTL,
     NotBefore |-> now - NotBeforeSkew,
     Id |-> "",
     Issuer |-> Issuer]

\* claims built by sendConfirmation
ConfirmClaims(user, address, q) ==
    [Handshake |-> Handshake("confirm", user \o Sep \o address, <<>>),
     User |-> Nil,
     SessionOnly |-> (q.session # "" /\ q.session # "0"),
     Audience |-> sanitize(q.site),
     ExpiresAt |-> now + TokenTTL,
     NotBefore |-> now - NotBeforeSkew,
     Id |-> "",
     Issuer |-> Issuer]

Dispatch_AckAnyway(user, address, q, env) ==
    LET claims == ConfirmClaims(user, address, q)
        tkn == Token(claims)
        tmplData == [User |-> user, Address |-> address, Token |-> tkn, Site |-> q.site]
        o1 == Called(NoEffect, "Token")
        o2 == Called(o1, "Template")
        o3 == Called(o2, "Send")
    IN IF env.fail = "token"
         THEN SendErrorJSON(o1, 403, "token", "failed to make login token")
       ELSE IF env.fail = "template"
         THEN SendErrorJSON(o2, 500, "template", "can't execute confirmation template")
       ELSE IF env.fail = "send"
         THEN RenderJSON(o3, [kind |-> "ack", user |-> user, address |-> address])
       ELSE RenderJSON([o3 EXCEPT !.sent = [address |-> address, text |-> tmplData]],
                       [kind |-> "ack", user |-> user, address |-> address])

\* sendConfirmation from the claims on: token, template, sender, acknowledgment
Dispatch(user, address, q, env) ==
    LET claims == ConfirmClaims(user, address, q)
        tkn == Token(claims)
        tmplData == [User |-> user, Address |-> address, Token |-> tkn, Site |-> q.site]
        o1 == Called(NoEffect, "Token")
        o2 == Called(o1, "Template")
        o3 == Called(o2, "Send")
    IN IF env.fail = "token"
         THEN SendErrorJSON(o1, 403, "token", "failed to make login token")
       ELSE IF env.fail = "template"
         THEN SendErrorJSON(o2, 500, "template", "can't execute confirmation template")
       ELSE IF env.fail = "send"
         THEN SendErrorJSON(o3, 500, "send", "failed to send confirmation")
       ELSE RenderJSON([o3 EXCEPT !.sent = [address |-> address, text |-> tmplData]],
                       [kind |-> "ack", user |-> user, address |-> address])

sendConfirmation_UserOnly(q, env) ==
    LET user == sanitize(q.user)
        address == sanitize(q.address)
    IN IF user = <<>>
         THEN SendErrorJSON(NoEffect, 400, "wrong request", "can't get user and address")
       ELSE Dispatch(user, address, q, env)

sendConfirmation(q, env) ==
    LET user == sanitize(q.user)
        address == sanitize(q.address)
    IN IF user = <<>> \/ address = <<>>
         THEN SendErrorJSON(NoEffect, 400, "wrong request", "can't get user and address")
       ELSE Dispatch(user, address, q, env)

CredentialsClaims_HashUser(confClaims, user, address, q) ==
    [Handshake |-> Handshake("credentials", confClaims.Handshake.ID, <<>>),
     User |-> User(user, ProviderName \o <<"_">> \o HashID(user), ""),
     SessionOnly |-> (q.session = "1"),
     Audience |-> sanitize(q.site),
     ExpiresAt |-> now + TokenTTL,
     NotBefore |-> now - NotBeforeSkew,
     Id |-> "",
     Issuer |-> Issuer]

\* claims of branch A (WithPassword)
CredentialsClaims(confClaims, user, address, q) ==
    [Handshake |-> Handshake("credentials", confClaims.Handshake.ID, <<>>),
     User |-> User(user, ProviderName \o <<"_">> \o HashID(address), ""),
     SessionOnly |-> (q.session = "1"),
     Audience |-> sanitize(q.site),
     ExpiresAt |-> now + TokenTTL,
     NotBefore |-> now - NotBeforeSkew,
     Id |-> "",
     Issuer |-> Issuer]

LoginUser_HashUser(user, address, env) ==
    User(user, ProviderName \o <<"_">> \o HashID(user), "")

\* the user of branch B before the avatar step
LoginUser(user, address, env) ==
    LET u == User(user, ProviderName \o <<"_">> \o HashID(address), "")
    IN IF cfg.UseGravatar /\ Contains(address, "@") /\ env.grav
         THEN [u EXCEPT !.Picture = "gravatar"]
       ELSE u

\* final claims of branch B
SessionClaims(u, cid, confClaims, sessOnly) ==
    [Handshake |-> Nil,
     User |-> u,
     SessionOnly |-> sessOnly,
     Audience |-> confClaims.Audience,
     ExpiresAt |-> 0,
     NotBefore |-> 0,
     Id |-> cid,
     Issuer |-> Issuer]

\* LoginHandler, branch A: the "credentials" token of password mode
BranchA(o, confClaims, elems, q, env) ==
    LET user == elems[1]
        address == elems[2]
        claims == CredentialsClaims(confClaims, user, address, q)
        oa == Called(o, "Set")
    IN IF env.fail = "set"
         THEN SendErrorJSON(oa, 403, "set", "failed to set token")
       ELSE RenderJSON([oa EXCEPT !.set = SetClaims(claims)],
                       [kind |-> "text", text |-> "confirmed"])

\* LoginHandler, branch B: avatar, user saver, token id, session token
BranchB(o, confClaims, elems, q, env) ==
    LET user == elems[1]
        address == elems[2]
        sessOnly == (q.session = "1")
        u0 == LoginUser(user, address, env)
        o1 == Called(o, "setAvatar")
        u == IF cfg.AvatarSaver THEN [u0 EXCEPT !.Picture = "proxy"] ELSE u0
        o2 == IF cfg.UserSaver THEN Called(o1, "UserSaver") ELSE o1
        o3 == IF cfg.UserSaver THEN [o2 EXCEPT !.saved = u] ELSE o2
        o4 == Called(o3, "randToken")
        claims == SessionClaims(u, env.cid, confClaims, sessOnly)
        o5 == Called(o4, "Set")
        o6 == [o5 EXCEPT !.set = SetClaims(claims)]
    IN IF cfg.AvatarSaver /\ env.fail = "avatar"
         THEN SendErrorJSON(o1, 500, "avatar", "failed to save avatar to proxy")
       ELSE IF cfg.UserSaver /\ env.fail = "save"
         THEN SendErrorJSON(o2, 500, "save", "failed to save user")
       ELSE IF env.fail = "rand"
         THEN SendErrorJSON(o4, 500, "rand", "can't make token id")
       ELSE IF env.fail = "set"
         THEN SendErrorJSON(o5, 500, "set", "failed to set token")
       ELSE IF confClaims.Handshake # Nil /\ confClaims.Handshake.From # <<>>
         THEN [o6 EXCEPT !.status = 307, !.redirect = confClaims.Handshake.From]
       ELSE RenderJSON(o6, [kind |-> "user", user |-> u])

LoginBranch_AlwaysB(o, confClaims, elems, q, env) == BranchB(o, confClaims, elems, q, env)

\* LoginHandler: if e.WithPassword
LoginBranch(o, confClaims, elems, q, env) ==
    IF cfg.WithPassword THEN BranchA(o, confClaims, elems, q, env)
    ELSE BranchB(o, confClaims, elems, q, env)

CheckSplit_AtLeastTwo(o, confClaims, q, env) ==
    LET elems == Split(confClaims.Handshake.ID, Sep)
    IN IF Len(elems) < 2
         THEN SendErrorJSON(o, 400, "handshake id", "invalid handshake token")
       ELSE LoginBranch(o, confClaims, elems, q, env)

\* LoginHandler: the split of the handshake ID
CheckSplit(o, confClaims, q, env) ==
    LET elems == Split(confClaims.Handshake.ID, Sep)
    IN IF Len(elems) # 2
         THEN SendErrorJSON(o, 400, "handshake id", "invalid handshake token")
       ELSE LoginBranch(o, confClaims, elems, q, env)

\* LoginHandler: confClaims.Handshake.State, read through a pointer that is
\* nil in claims without a handshake
CheckState(o, confClaims, q, env) ==
    IF confClaims.Handshake = Nil THEN Panic(o)
    ELSE IF confClaims.Handshake.State # "confirm"
      THEN SendErrorJSON(o, 403, "confirm", "failed to verify confirmation token")
    ELSE CheckSplit(o, confClaims, q, env)

CheckExpired_Skipped(o, confClaims, q, env) == CheckState(o, confClaims, q, env)

\* LoginHandler: e.TokenService.IsExpired(confClaims)
CheckExpired(o, confClaims, q, env) ==
    LET o2 == Called(o, "IsExpired")
    IN IF IsExpired(confClaims)
         THEN SendErrorJSON(o2, 403, "expired", "failed to verify confirmation token")
       ELSE CheckState(o2, confClaims, q, env)

LoginHandler(q, env) ==
    IF q.token = EmptyToken THEN sendConfirmation(q, env)
    ELSE
      LET p == Parse(q.token)
          o1 == Called(NoEffect, "Parse")
      IN IF p.err
           THEN SendErrorJSON(o1, 403, "parse", "failed to verify confirmation token")
         ELSE CheckExpired([o1 EXCEPT !.parsed = p.claims], p.claims, q, env)

\* final claims of AuthHandler
AuthClaims(claims, cid, sessOnly) ==
    [Handshake |-> Nil,
     User |-> claims.User,
     SessionOnly |-> sessOnly,
     Audience |-> claims.Audience,
     ExpiresAt |-> 0,
     NotBefore |-> 0,
     Id |-> cid,
     Issuer |-> Issuer]

Finalize_SetBeforeSave(o, claims, q, env) ==
    LET sessOnly == (q.session = "1")
        authClaims == AuthClaims(claims, env.cid, sessOnly)
        o3 == Called(o, "randToken")
        o4 == Called(o3, "Set")
        o5 == [o4 EXCEPT !.set = SetClaims(authClaims)]
        o6 == IF cfg.UserSaver THEN Called(o5, "UserSaver") ELSE o5
    IN IF env.fail = "rand"
         THEN SendErrorJSON(o3, 500, "rand", "can't make token id")
       ELSE IF env.fail = "set"
         THEN SendErrorJSON(o4, 500, "set", "failed to set token")
       ELSE IF cfg.UserSaver /\ claims.User = Nil
         THEN Panic(o5)
       ELSE IF cfg.UserSaver /\ env.fail = "save"
         THEN SendErrorJSON(o6, 500, "save", "failed to save user")
       ELSE RenderJSON(IF cfg.UserSaver THEN [o6 EXCEPT !.saved = claims.User] ELSE o6,
                       [kind |-> "user", user |-> authClaims.User])

\* AuthHandler from the user saver on
Finalize(o, claims, q, env) ==
    LET sessOnly == (q.session = "1")
        o3 == IF cfg.UserSaver THEN Called(o, "UserSaver") ELSE o
        o4 == Called(IF cfg.UserSaver THEN [o3 EXCEPT !.saved = claims.User] ELSE o3,
                     "randToken")
        authClaims == AuthClaims(claims, env.cid, sessOnly)
        o5 == Called(o4, "Set")
    IN IF cfg.UserSaver /\ claims.User = Nil
         THEN Panic(o)
       ELSE IF cfg.UserSaver /\ env.fail = "save"
         THEN SendErrorJSON(o3, 500, "save", "failed to save user")
       ELSE IF env.fail = "rand"
         THEN SendErrorJSON(o4, 500, "rand", "can't make token id")
       ELSE IF env.fail = "set"
         THEN SendErrorJSON(o5, 500, "set", "failed to set token")
       ELSE RenderJSON([o5 EXCEPT !.set = SetClaims(authClaims)],
                       [kind |-> "user", user |-> authClaims.User])

CheckCredentials_Skipped(o, claims, q, env) == Finalize(o, claims, q, env)

\* AuthHandler: claims.Handshake == nil || claims.Handshake.State != "credentials"
CheckCredentials(o, claims, q, env) ==
    IF claims.Handshake = Nil \/ claims.Handshake.State # "credentials"
      THEN SendErrorJSON(o, 500, "", "invalid kind of token")
    ELSE Finalize(o, claims, q, env)

AuthHandler(r, q, env) ==
    LET g == Get(r)
        o1 == Called(NoEffect, "Get")
    IN IF ~cfg.WithPassword THEN NoEffect
       ELSE IF g.err
         THEN SendErrorJSON(o1, 500, "get", "failed to get token")
       ELSE CheckCredentials([o1 EXCEPT !.parsed = g.claims], g.claims, q, env)

LogoutHandler_NoReset == NoEffect

LogoutHandler == Called(NoEffect, "Reset")

---------------------------------------------------------------------------
(* the system: one VerifyHandler, one client and the clock *)

\* the optional collaborators are configured together, the gravatar lookup
\* where no avatar saver overwrites its picture
Configs ==
    {c \in [WithPassword : BOOLEAN, UserSaver : BOOLEAN, AvatarSaver : BOOLEAN,
            UseGravatar : BOOLEAN] :
        c.AvatarSaver = c.UserSaver /\ c.UseGravatar = ~c.AvatarSaver}

Clients == [user : Users, address : Addresses, session : Sessions]

AllClients == [user : RawInputs, address : RawInputs, session : {"1"}]

\* tokens the client can put into a request: the one mailed to it, the one in
\* its cookie, tokens signed elsewhere and a string that is no token
Presentable ==
    {Garbage} \cup {Token(c) : c \in ForeignClaims}
      \cup (IF mail = Nil THEN {} ELSE {mail.text.Token})
      \cup (IF cookie = Nil THEN {} ELSE {cookie})

\* the last request: its handler, the time it was served and its outcome
Outcome(handler, o) == [handler |-> handler, at |-> now, out |-> o]

Start ==
    /\ cfg \in Configs
    /\ now = 0
    /\ mail = Nil
    /\ cookie = Nil
    /\ last = Outcome("none", NoEffect)

Init == Start /\ client \in Clients

\* what a request leaves behind: the message sent and the cookie set
Apply(handler, o) ==
    /\ mail' = IF o.sent # Nil THEN o.sent ELSE mail
    /\ cookie' = IF o.set # Nil THEN Token(o.set) ELSE cookie
    /\ last' = Outcome(handler, o)
    /\ UNCHANGED <<cfg, client, now>>

\* GET /login?site=&user=&address=&session=
RequestConfirmation ==
    \E site \in Sites, fail \in {"none", "token", "template", "send"} :
        LET q == [token |-> EmptyToken, user |-> client.user, address |-> client.address,
                  site |-> site, session |-> client.session]
            env == [fail |-> fail, grav |-> FALSE, cid |-> ""]
        IN Apply("LoginHandler", LoginHandler(q, env))

\* GET /login?token=&session=
ResolveLogin ==
    \E tkn \in Presentable, site \in Sites,
       fail \in {"none", "avatar", "save", "rand", "set"},
       grav \in (IF cfg.UseGravatar THEN BOOLEAN ELSE {FALSE}), cid \in RandIds :
        LET q == [token |-> tkn, user |-> <<>>, address |-> <<>>,
                  site |-> site, session |-> client.session]
            env == [fail |-> fail, grav |-> grav, cid |-> cid]
        IN Apply("LoginHandler", LoginHandler(q, env))

\* GET|POST /credentials
Credentials ==
    \E r \in {EmptyToken} \cup Presentable,
       fail \in {"none", "save", "rand", "set"}, cid \in RandIds :
        LET q == [session |-> client.session]
            env == [fail |-> fail, grav |-> FALSE, cid |-> cid]
        IN Apply("AuthHandler", AuthHandler(r, q, env))

\* GET /logout
Logout ==
    /\ cookie' = IF Contains(LogoutHandler.calls, "Reset") THEN Nil ELSE cookie
    /\ last' = Outcome("LogoutHandler", LogoutHandler)
    /\ UNCHANGED <<cfg, client, now, mail>>

Tick ==
    /\ now + TickStep <= MaxNow
    /\ now' = now + TickStep
    /\ UNCHANGED <<cfg, client, mail, cookie, last>>

Next == RequestConfirmation \/ ResolveLogin \/ Credentials \/ Logout \/ Tick

Spec == Init /\ [][Next]_vars

\* every user and address up to MaxLen, through confirmation and login at one time
InitIDs == Start /\ client \in AllClients

NextIDs == RequestConfirmation \/ ResolveLogin

SpecIDs == InitIDs /\ [][NextIDs]_vars

---------------------------------------------------------------------------
(* properties *)

out == last.out

IsFinal(c) == c # Nil /\ c.Handshake = Nil

IsState(c, st) == c # Nil /\ c.Handshake # Nil /\ c.Handshake.State = st

\* the validity window of c had passed at time t
ExpiredAt(c, t) == c.ExpiresAt = 0 \/ c.ExpiresAt < t

ExpectedID(address) == ProviderName \o <<"_">> \o HashID(address)

Parts(c) == Split(c.Handshake.ID, Sep)

\* the last request presented a token to LoginHandler
Resolving == last.handler = "LoginHandler" /\ out.calls # <<>> /\ Head(out.calls) = "Parse"

\* the last request was AuthHandler in password mode
Finalizing == last.handler = "AuthHandler" /\ cfg.WithPassword

\* the last request resolved a "confirm" token inside its validity window
ResolvingConfirm ==
    Resolving /\ IsState(out.parsed, "confirm") /\ ~ExpiredAt(out.parsed, last.at)

CollaboratorErrors == {"avatar", "save", "rand", "set"}

\* C1: in password mode LoginHandler sets nothing but "credentials" tokens, and
\* a final session token is set only by AuthHandler, from a "credentials" token.
C1_PasswordChain ==
    cfg.WithPassword =>
      /\ (Resolving /\ out.set # Nil) => IsState(out.set, "credentials")
      /\ (out.set # Nil /\ IsFinal(out.set)) =>
            (last.handler = "AuthHandler" /\ IsState(out.parsed, "credentials"))

C1_Witness ==
    /\ cfg.WithPassword
    /\ last.handler = "AuthHandler"
    /\ IsFinal(out.set)
    /\ IsState(out.parsed, "credentials")
    /\ mail # Nil

\* C2: with password mode off and no collaborator failing, resolving a valid
\* confirm token sets final claims (no handshake) whose user ID is
\* ProviderName_hash(address) for the address part of the token's handshake ID,
\* a function of the address alone.
C2_SessionIdentity ==
    (/\ ~cfg.WithPassword
     /\ ResolvingConfirm
     /\ Len(Parts(out.parsed)) = 2
     /\ out.error \notin CollaboratorErrors)
    => /\ IsFinal(out.set)
       /\ out.set.User.ID = ExpectedID(Parts(out.parsed)[2])

C2_Witness ==
    /\ ~cfg.WithPassword
    /\ ResolvingConfirm
    /\ Len(Parts(out.parsed)) = 2
    /\ IsFinal(out.set)
    /\ out.set.User.Name # Parts(out.parsed)[2]
    /\ mail # Nil /\ out.parsed = mail.text.Token.claims

\* C3: the token sendConfirmation issues for an accepted (user, address) is
\* never rejected as malformed by LoginHandler, and the user and address
\* LoginHandler recovers from it are the ones it was issued for.
C3_RoundTrip ==
    (Resolving /\ mail # Nil /\ out.parsed = mail.text.Token.claims)
    => /\ out.error # "handshake id"
       /\ out.set # Nil =>
            /\ out.set.User.Name = mail.text.User
            /\ out.set.User.ID = ExpectedID(mail.text.Address)

\* C4: an unexpired token without a handshake, or in a state other than
\* "confirm", is answered by LoginHandler with 403; nothing is set or saved and
\* the handler does not crash.
C4_WrongStateRejected ==
    (/\ Resolving
     /\ out.parsed # Nil
     /\ ~ExpiredAt(out.parsed, last.at)
     /\ ~IsState(out.parsed, "confirm"))
    => /\ ~out.panic
       /\ out.status = 403
       /\ out.set = Nil
       /\ out.saved = Nil

\* the last request was turned down for the token it carried: unreadable,
\* expired, in the wrong state or with a malformed handshake ID
ProtocolViolation ==
    \/ /\ Resolving
       /\ \/ out.parsed = Nil
          \/ ExpiredAt(out.parsed, last.at)
          \/ ~IsState(out.parsed, "confirm")
          \/ Len(Parts(out.parsed)) # 2
    \/ /\ Finalizing
       /\ \/ out.parsed = Nil
          \/ ~IsState(out.parsed, "credentials")

\* C5: every request turned down for its token is answered with 403, in
\* LoginHandler and in AuthHandler.
C5_ProtocolErrors403 == ProtocolViolation => out.status = 403

\* C6: no final session token is set from a handshake token whose validity
\* window has passed.
C6_NoSessionFromExpired ==
    (out.set # Nil /\ IsFinal(out.set) /\ out.parsed # Nil)
    => ~ExpiredAt(out.parsed, last.at)

\* C7: a token that parses but is expired is answered by LoginHandler with 403
\* "expired" right after the expiry check: nothing of its handshake is read, no
\* avatar step runs, nothing is saved, nothing is set.
C7_ExpiredConfirmRejected ==
    (Resolving /\ out.parsed # Nil /\ ExpiredAt(out.parsed, last.at))
    => /\ out.status = 403
       /\ out.error = "expired"
       /\ out.calls = <<"Parse", "IsExpired">>
       /\ out.set = Nil
       /\ out.saved = Nil
       /\ ~out.panic

C7_Witness ==
    /\ Resolving
    /\ IsState(out.parsed, "confirm")
    /\ ExpiredAt(out.parsed, last.at)
    /\ out.status = 403
    /\ mail # Nil /\ out.parsed = mail.text.Token.claims

\* C8: an unexpired confirm token is rejected as malformed, with nothing set or
\* saved, exactly when its handshake ID does not split into two parts on "::";
\* only an ID of exactly two parts reaches branch A or B.
C8_MalformedHandshake ==
    ResolvingConfirm =>
      IF Len(Parts(out.parsed)) # 2
        THEN /\ out.status = 400
             /\ out.error = "handshake id"
             /\ out.details = "invalid handshake token"
             /\ out.calls = <<"Parse", "IsExpired">>
             /\ out.set = Nil
             /\ out.saved = Nil
        ELSE /\ out.error # "handshake id"
             /\ Len(out.calls) > 2

C8_Witness ==
    /\ ResolvingConfirm
    /\ Len(Parts(out.parsed)) > 2
    /\ out.status = 400
    /\ mail # Nil /\ out.parsed = mail.text.Token.claims

\* C9: in password mode AuthHandler, given no readable token, a token without a
\* handshake or one whose state is not "credentials", answers with an error
\* right after reading it: no user is saved and no token is set.
C9_CredentialsRequired ==
    (Finalizing /\ (out.parsed = Nil \/ ~IsState(out.parsed, "credentials")))
    => /\ out.status >= 400
       /\ out.details \in {"failed to get token", "invalid kind of token"}
       /\ out.calls = <<"Get">>
       /\ out.saved = Nil
       /\ out.set = Nil
       /\ ~out.panic

C9_Witness ==
    /\ Finalizing
    /\ IsState(out.parsed, "confirm")
    /\ out.details = "invalid kind of token"
    /\ cookie # Nil /\ IsState(cookie.claims, "credentials")

\* C10: in password mode the "credentials" token carries the handshake ID of the
\* confirm token and the user ID ProviderName_hash(address) of its address part,
\* and the final session AuthHandler sets carries that same user ID.
C10_IdentityContinuity ==
    cfg.WithPassword =>
      /\ (Resolving /\ out.set # Nil) =>
            /\ out.set.Handshake.ID = out.parsed.Handshake.ID
            /\ out.set.User.ID = ExpectedID(Parts(out.parsed)[2])
      /\ (Finalizing /\ out.set # Nil) =>
            /\ out.set.User.ID = out.parsed.User.ID
            /\ out.set.User.ID = ExpectedID(Parts(out.parsed)[2])

C10_Witness ==
    /\ Finalizing
    /\ IsFinal(out.set)
    /\ mail # Nil /\ out.parsed.Handshake.ID = mail.text.Token.claims.Handshake.ID
    /\ out.set.User.Name # Parts(out.parsed)[2]

\* the last request was served by LoginHandler or AuthHandler
Handled == last.handler \in {"LoginHandler", "AuthHandler"}

\* the collaborator whose failure ended the last request
DownstreamErrors == {"token", "template", "send", "avatar", "save", "rand", "set"}

\* C11: a request ended by the failure of a collaborator (token service
\* signing or setting a token, template, sender, avatar saver, user saver,
\* random source) is answered with 500.
C11_DownstreamErrors500 ==
    (Handled /\ out.error \in DownstreamErrors) => out.status = 500

\* C12: once LoginHandler has resolved a confirm token into a token it set,
\* presenting the same confirm token again inside its validity window sets
\* no further token.  (A step that changes last is a new request; a replay
\* answered exactly as the first request leaves no trace to compare.)
C12_NoReplay ==
    [][(/\ Resolving
        /\ IsState(out.parsed, "confirm")
        /\ out.set # Nil
        /\ last' # last
        /\ Resolving'
        /\ out'.parsed = out.parsed
        /\ ~ExpiredAt(out.parsed, last'.at))
       => out'.set = Nil]_vars

\* the last request asked LoginHandler for a confirmation (no token in it)
Confirming == last.handler = "LoginHandler" /\ ~Resolving

\* C13: a confirmation request whose user or address is empty after
\* sanitize is answered with 400 before any collaborator is called: no token
\* is requested, no template rendered, nothing given to the Sender.
C13_EmptyInputRejected ==
    (Confirming /\ (sanitize(client.user) = <<>> \/ sanitize(client.address) = <<>>))
    => /\ out.status = 400
       /\ out.error = "wrong request"
       /\ out.calls = <<>>
       /\ out.sent = Nil
       /\ out.body = NoBody
       /\ mail = Nil

C13_Witness ==
    /\ Confirming
    /\ client.user # <<>> /\ sanitize(client.user) # <<>>
    /\ client.address = <<>>
    /\ out.status = 400

\* C14: the message of a successful confirmation goes to the sanitized
\* address and carries a token whose claims have the state "confirm", the ID
\* user :: address of the sanitized values, the sanitized site as audience and
\* no user.
C14_ConfirmToken ==
    (Confirming /\ out.sent # Nil)
    => LET c == out.sent.text.Token.claims
       IN /\ IsState(c, "confirm")
          /\ c.Handshake.ID = sanitize(client.user) \o Sep \o sanitize(client.address)
          /\ c.Audience = sanitize(out.sent.text.Site)
          /\ c.User = Nil
          /\ out.sent.address = sanitize(client.address)
          /\ out.calls = <<"Token", "Template", "Send">>

C14_Witness ==
    /\ Confirming
    /\ out.sent # Nil
    /\ out.sent.text.Site # sanitize(out.sent.text.Site)
    /\ client.user # sanitize(client.user)
    /\ mail = out.sent

\* C15: with password mode off, the final claims LoginHandler sets for the
\* mailed token carry the user name the confirmation was requested for and
\* the audience of the confirm token, whatever the resolving request's query.
C15_EndToEnd ==
    (/\ ~cfg.WithPassword
     /\ Resolving
     /\ mail # Nil /\ out.parsed = mail.text.Token.claims
     /\ IsFinal(out.set))
    => /\ out.set.User.Name = mail.text.User
       /\ out.set.Audience = out.parsed.Audience

\* C16: LogoutHandler answers every request without an error and leaves no
\* cookie; a second call right after the first changes nothing but the time
\* of the request.
C16_LogoutIdempotent ==
    [][last'.handler = "LogoutHandler" =>
         /\ cookie' = Nil
         /\ out'.status = 200 /\ out'.error = "" /\ ~out'.panic
         /\ out'.set = Nil
         /\ mail' = mail
         /\ last.handler = "LogoutHandler" => (cookie' = cookie /\ out' = out)]_vars

C16_Witness ==
    /\ last.handler = "LogoutHandler"
    /\ cookie = Nil
    /\ mail # Nil
    /\ out.calls = <<"Reset">>

Count(s, c) == Cardinality({i \in 1..Len(s) : s[i] = c})

\* C17: a confirmation request is answered either with an error without a body
\* or with the acknowledgment {user, address} of the sanitized values, never
\* with the token; the acknowledgment is written only after the Sender took
\* the message, and not when the template or the Sender fails.
C17_TokenNotEchoed ==
    Confirming =>
      /\ out.body \in {NoBody, [kind |-> "ack", user |-> sanitize(client.user),
                                address |-> sanitize(client.address)]}
      /\ out.set = Nil
      /\ out.redirect = <<>>
      /\ out.body # NoBody =>
            /\ out.status = 200
            /\ out.sent # Nil
            /\ out.calls = <<"Token", "Template", "Send">>
      /\ out.error \in {"token", "template", "send"} =>
            (out.body = NoBody /\ out.sent = Nil /\ out.status >= 400)

C17_Witness ==
    /\ Confirming
    /\ out.body # NoBody
    /\ out.sent # Nil /\ out.sent.text.Token.kind = "jwt"
    /\ mail = out.sent

\* C18: a request of LoginHandler or AuthHandler that ends with an error has
\* set no token; Set is called at most once and nothing is called after it;
\* the user saver is called at most once and before Set; a failing avatar
\* saver, user saver or random source means Set is never called.
C18_ErrorsTerminal ==
    Handled =>
      /\ (out.status >= 400 \/ out.panic) => out.set = Nil
      /\ Count(out.calls, "Set") <= 1
      /\ Contains(out.calls, "Set") => out.calls[Len(out.calls)] = "Set"
      /\ out.set # Nil => Contains(out.calls, "Set")
      /\ Count(out.calls, "UserSaver") <= 1
      /\ out.saved # Nil => Contains(out.calls, "UserSaver")
      /\ out.error \in {"avatar", "save", "rand"} =>
            (out.set = Nil /\ ~Contains(out.calls, "Set") /\ out.status = 500)

C18_Witness ==
    /\ Handled
    /\ out.error = "save"
    /\ Contains(out.calls, "UserSaver")
    /\ out.set = Nil
    /\ out.parsed # Nil

====
